---- MODULE Spec2Model ----
(***************************************************************************)
(* Model of build_html.py: extract_toc (the outline builder) and           *)
(* format_content_to_html (the line classifier / renderer).                *)
(*                                                                         *)
(* A line is a sequence of characters; a character is a one-element        *)
(* string, except the few that cannot be written in a TLA+ string, which   *)
(* are named: BT is the backtick, DQ the double quote, SQ the single       *)
(* quote, and "U+7528" the character with that code point.                 *)
(***************************************************************************)
EXTENDS Integers, Sequences, FiniteSets, TLC

BT == "BT"
DQ == "DQ"
SQ == "SQ"
NL == "\n"

(* Largest number of lines of a document (content.split('\n') never yields *)
(* fewer than one line).                                                   *)
MaxLines == 3

----------------------------------------------------------------------------
(* String primitives of Python, over sequences of characters.              *)

(* str.strip() / re \s : the whitespace characters of the alphabet.        *)
IsSpace(c) == c \in {" ", "\t", NL}

(* re \d *)
IsDigit(c) == c \in {"0", "1", "2", "3", "4", "5", "6", "7", "8", "9"}

(* Index of the first character that is not whitespace, Len(s)+1 if none *)
FirstNonSpace(s) ==
    IF \A a \in 1..Len(s) : IsSpace(s[a]) THEN Len(s) + 1
    ELSE CHOOSE a \in 1..Len(s) :
            ~IsSpace(s[a]) /\ \A b \in 1..(a - 1) : IsSpace(s[b])

(* Index of the last character that is not whitespace, 0 if none *)
LastNonSpace(s) ==
    IF \A a \in 1..Len(s) : IsSpace(s[a]) THEN 0
    ELSE CHOOSE a \in 1..Len(s) :
            ~IsSpace(s[a]) /\ \A b \in (a + 1)..Len(s) : IsSpace(s[b])

(* s.rstrip(), s.strip() *)
RStrip(s) == SubSeq(s, 1, LastNonSpace(s))
Strip(s)  == SubSeq(s, FirstNonSpace(s), LastNonSpace(s))

(* s.startswith(p) *)
StartsWith(s, p) == Len(p) <= Len(s) /\ SubSeq(s, 1, Len(p)) = p

(* kw in s *)
Contains(s, kw) ==
    \E a \in 1..(Len(s) - Len(kw) + 1) : SubSeq(s, a, a + Len(kw) - 1) = kw

(* s.count(c), c one character *)
Count(s, c) == Cardinality({a \in 1..Len(s) : s[a] = c})

(* s.split(sep), sep one character: the piece that starts at start is     *)
(* scanned from a on                                                       *)
RECURSIVE SplitFrom(_, _, _, _)
SplitFrom(s, sep, start, a) ==
    IF a > Len(s) THEN <<SubSeq(s, start, Len(s))>>
    ELSE IF s[a] = sep
         THEN <<SubSeq(s, start, a - 1)>> \o SplitFrom(s, sep, a + 1, a + 1)
         ELSE SplitFrom(s, sep, start, a + 1)

Split(s, sep) == SplitFrom(s, sep, 1, 1)

(* s.replace(x, y), x and y one character each *)
Replace(s, x, y) == [a \in 1..Len(s) |-> IF s[a] = x THEN y ELSE s[a]]

(* '\n'.join(ls): the first n elements joined *)
RECURSIVE JoinTo(_, _)
JoinTo(ls, n) ==
    IF n = 0 THEN <<>>
    ELSE IF n = 1 THEN ls[1]
    ELSE JoinTo(ls, n - 1) \o <<NL>> \o ls[n]

Join(ls) == JoinTo(ls, Len(ls))

(* html.escape(s), quote=True *)
EscapeChar(c) ==
    CASE c = "&" -> <<"&", "a", "m", "p", ";">>
      [] c = "<" -> <<"&", "l", "t", ";">>
      [] c = ">" -> <<"&", "g", "t", ";">>
      [] c = DQ  -> <<"&", "q", "u", "o", "t", ";">>
      [] c = SQ  -> <<"&", "#", "x", "2", "7", ";">>
      [] OTHER   -> <<c>>

(* the first n characters of s, escaped *)
RECURSIVE EscapeTo(_, _)
EscapeTo(s, n) ==
    IF n = 0 THEN <<>> ELSE EscapeTo(s, n - 1) \o EscapeChar(s[n])

(* html.escape(s, quote=False): the quotes are left as they are *)
RECURSIVE EscapeTo_noquote(_, _)
EscapeTo_noquote(s, n) ==
    IF n = 0 THEN <<>>
    ELSE EscapeTo_noquote(s, n - 1)
            \o (IF s[n] \in {DQ, SQ} THEN <<s[n]>> ELSE EscapeChar(s[n]))

escape_noquote(s) == EscapeTo_noquote(s, Len(s))

escape(s) == EscapeTo(s, Len(s))

----------------------------------------------------------------------------
(* The heading pattern  ^(\d+(?:\.\d+){0,2})\.\s+(.+)$                     *)

(* \d+(?:\.\d+){0,2} matches the whole of n: one to three non-empty runs  *)
(* of digits, separated by single periods                                  *)
IsNumber(n) ==
    /\ n # <<>>
    /\ \A a \in 1..Len(n) : IsDigit(n[a]) \/ n[a] = "."
    /\ IsDigit(n[1]) /\ IsDigit(n[Len(n)])
    /\ \A a \in 1..(Len(n) - 1) : ~(n[a] = "." /\ n[a + 1] = ".")
    /\ Count(n, ".") <= 2

(* The places p where group(1) can end: s[1..p] is a number, the literal   *)
(* period is at p+1, \s+ starts at p+2 and leaves a character for (.+)     *)
NumberEnds(s) ==
    {p \in 1..(Len(s) - 3) :
        /\ s[p + 1] = "."
        /\ IsSpace(s[p + 2])
        /\ IsNumber(SubSeq(s, 1, p))}

(* \s+ is greedy: from a on it takes whitespace as long as a character is  *)
(* left for (.+); the result is where group(2) starts                      *)
RECURSIVE TitleStart(_, _)
TitleStart(s, a) ==
    IF a < Len(s) /\ IsSpace(s[a]) THEN TitleStart(s, a + 1) ELSE a

(* The match whose group(1) ends at p *)
MatchAt(s, p) ==
    [ok     |-> TRUE,
     number |-> SubSeq(s, 1, p),
     title  |-> SubSeq(s, TitleStart(s, p + 3), Len(s))]

(* The match, given the places where group(1) can end: the pattern is      *)
(* greedy, the longest number is taken                                     *)
MatchFrom(s, ends) ==
    IF ends = {}
    THEN [ok |-> FALSE, number |-> <<>>, title |-> <<>>]
    ELSE MatchAt(s, CHOOSE p \in ends : \A f \in ends : f <= p)

(* re.match(pattern, s): ok, group(1) and group(2) *)
ReMatch(s) == MatchFrom(s, NumberEnds(s))

(* skip_keywords, the same list in both functions *)
skip_keywords ==
    { <<"U+7528", "U+6237", "U+8BBF", "U+95EE">>,
      <<"U+54CD", "U+5E94", "U+65F6", "U+95F4">>,
      <<"J", "V", "M", " ", "U+5DF2">>,
      <<"N", "g", "i", "n", "x">>,
      <<"P", "H", "P", " ", "U+89E3", "U+91CA", "U+5668">>,
      <<"U+542F", "U+52A8", " ", "P", "H", "P">>,
      <<"U+6536", "U+5230", "U+8BF7", "U+6C42">>,
      <<"U+76F4", "U+63A5", "U+8C03", "U+7528">>,
      <<"U+53EF", "U+80FD", "U+521B", "U+5EFA">>,
      <<"U+91CD", "U+65B0", "U+89E3", "U+91CA">>,
      <<"U+7D2F", "U+79EF", "U+4F7F", "U+7528">> }

(* the id without the replacement of the periods *)
HeadingId_plain(number) == <<"h", "-">> \o number

(* f"h-{number.replace('.', '-')}" *)
HeadingId(number) == <<"h", "-">> \o Replace(number, ".", "-")

(* len(number.split('.')) *)
Level(number) == Len(Split(number, "."))

----------------------------------------------------------------------------
(* The lines documents are made of: one representative of each shape the   *)
(* classifier tells apart.                                                 *)

L_blank   == <<>>
L_spaces  == <<" ", " ", " ", " ">>
L_fence   == <<BT, BT, BT>>
L_fenceJ  == <<"\t", BT, BT, BT, "j">>
L_head    == <<"1", ".", " ", "A", "B", "C", "D">>
L_short   == <<" ", "1", ".", " ", "A", "B", "C">>
L_deny    == <<"1", ".", "2", ".", " ", "N", "g", "i", "n", "x">>
L_http    == <<"1", ".", "2", ".", " ", "h", "t", "t", "p">>
L_enum    == <<" ", "1", ")", " ", DQ, ">", SQ, BT, BT, BT>>
L_headB   == <<" ", " ", " ", " ", "1", ".", " ", "A", "<", "B", "{">>
L_head3   == <<"1", ".", "2", ".", "3", ".", " ", "A", "B", "C", "D">>
L_close   == <<"}">>
L_keyword == <<" ", " ", " ", " ", "@">>
L_brace   == <<"{">>
L_tab     == <<"\t", "&", "}", "}">>

LinePool ==
    { L_blank, L_spaces, L_fence, L_fenceJ, L_head, L_short, L_deny, L_http,
      L_enum, L_headB, L_head3, L_close, L_keyword, L_brace, L_tab }

Documents == UNION {[1..n -> LinePool] : n \in 1..MaxLines}

(* The lines of the documents of the termination check: every branch of    *)
(* the main loop and every inner loop is taken with them.                  *)
LivePool ==
    { L_blank, L_fence, L_head, L_enum, L_close, L_keyword, L_brace, L_tab }

LiveDocuments == UNION {[1..n -> LivePool] : n \in 1..MaxLines}

----------------------------------------------------------------------------
VARIABLES
    lines,          \* content.split('\n'), the same in both functions
    pc,             \* "toc": in extract_toc, "fmt": in format_content_to_html
    k,              \* extract_toc: index of the line the for loop takes next
    toc,            \* extract_toc: the outline built so far
    toc_ids,        \* extract_toc: the numbers already accepted
    toc_line,       \* history: toc_line[e] is the index of the line of toc[e]
    i,              \* format_content_to_html: the cursor
    html,           \* format_content_to_html: the fragments emitted so far
    in_code_block,  \* format_content_to_html: inside a fence
    code_lines,     \* format_content_to_html: lines buffered inside the fence
    brace_count,    \* format_content_to_html: running brace balance
    fence_open      \* history: index of the line that opened the fence

vars == <<lines, pc, k, toc, toc_ids, toc_line, i, html, in_code_block,
          code_lines, brace_count, fence_open>>

tocVars == <<k, toc, toc_ids, toc_line>>
fmtVars == <<i, html, in_code_block, code_lines, brace_count, fence_open>>

(* lines[j] with Python's indices, which start at 0 *)
Line(j) == lines[j + 1]

Init ==
    /\ lines \in Documents
    /\ pc = "toc"
    /\ k = 0
    /\ toc = <<>>
    /\ toc_ids = {}
    /\ toc_line = <<>>
    /\ i = 0
    /\ html = <<>>
    /\ in_code_block = FALSE
    /\ code_lines = <<>>
    /\ brace_count = 0
    /\ fence_open = 0

----------------------------------------------------------------------------
(* extract_toc                                                             *)

(* tuple([f'{i})' for i in range(10)]) *)
EnumPrefixes == {<<d, ")">> : d \in {"0", "1", "2", "3", "4", "5", "6", "7", "8", "9"}}

(* is_valid that forgets the accepted numbers *)
is_valid_no_ids(line, number, title, ids) ==
    /\ Len(title) >= 4
    /\ ~ \E kw \in skip_keywords : Contains(title, kw)
    /\ ~ StartsWith(title, <<"h", "t", "t", "p">>)
    /\ ~ \E pre \in EnumPrefixes : StartsWith(Strip(line), pre)

(* is_valid, for the title and number of a matched line *)
is_valid(line, number, title, ids) ==
    /\ Len(title) >= 4
    /\ ~ \E kw \in skip_keywords : Contains(title, kw)
    /\ ~ StartsWith(title, <<"h", "t", "t", "p">>)
    /\ ~ \E pre \in EnumPrefixes : StartsWith(Strip(line), pre)
    /\ number \notin ids

(* re.match(..., line.strip()) of extract_toc *)
TocMatch(line) == ReMatch(Strip(line))

(* The dictionary appended to toc *)
TocEntry(number, title) ==
    [id     |-> HeadingId(number),
     number |-> number,
     title  |-> title,
     level  |-> Level(number)]

(* One iteration of  for line in lines  *)
TocStep ==
    /\ pc = "toc"
    /\ k < Len(lines)
    /\ \E line \in {Line(k)} :
       \E match \in {TocMatch(line)} :
       \E number \in {match.number} :
       \E title \in {Strip(match.title)} :
           IF match.ok /\ is_valid(line, number, title, toc_ids)
           THEN /\ toc_ids' = toc_ids \cup {number}
                /\ toc' = Append(toc, TocEntry(number, title))
                /\ toc_line' = Append(toc_line, k)
           ELSE UNCHANGED <<toc, toc_ids, toc_line>>
    /\ k' = k + 1
    /\ UNCHANGED <<lines, pc>>
    /\ UNCHANGED fmtVars

(* return toc; main then calls format_content_to_html on the same content *)
TocReturn ==
    /\ pc = "toc"
    /\ k >= Len(lines)
    /\ pc' = "fmt"
    /\ UNCHANGED <<lines>>
    /\ UNCHANGED tocVars
    /\ UNCHANGED fmtVars

----------------------------------------------------------------------------
(* format_content_to_html                                                  *)

(* An element of html.  tag, id, level and text are what the appended      *)
(* string is built from: "h" is <h{level+1} id=.. class="heading           *)
(* level-{level}">, "p" is <p>, "pre" is <pre><code>, "gap" is the         *)
(* <div class="gap">.  rule, first and last are history: the branch that   *)
(* appended the fragment and the lines i .. it consumed for it.            *)
Fragment(tag, id, level, text, rule, first, last) ==
    [tag |-> tag, id |-> id, level |-> level, text |-> text,
     rule |-> rule, first |-> first, last |-> last]

(* lines[a:b] *)
Slice(a, b) == [j \in 1..(b - a) |-> Line(a + j - 1)]

(* stripped.startswith('```') *)
IsFenceMarker(line) == StartsWith(Strip(line), <<BT, BT, BT>>)

(* the pattern with [.)] after the number *)
TitleMatch_paren(line) == ReMatch(Replace(Strip(line), ")", "."))

(* title_match = re.match(..., stripped) *)
TitleMatch(line) == ReMatch(Strip(line))

(* the length test with > in place of >= *)
TitleOk_gt4(title) ==
    /\ Len(title) > 4
    /\ ~ \E kw \in skip_keywords : Contains(title, kw)

(* len(title) >= 4 and not any(kw in title for kw in skip_keywords) *)
TitleOk(title) ==
    /\ Len(title) >= 4
    /\ ~ \E kw \in skip_keywords : Contains(title, kw)

java_keywords ==
    { <<"c", "l", "a", "s", "s", " ">>,
      <<"p", "u", "b", "l", "i", "c", " ">>,
      <<"p", "r", "i", "v", "a", "t", "e", " ">>,
      <<"p", "r", "o", "t", "e", "c", "t", "e", "d", " ">>,
      <<"@">>,
      <<"i", "m", "p", "o", "r", "t", " ">>,
      <<"p", "a", "c", "k", "a", "g", "e", " ">>,
      <<"i", "n", "t", "e", "r", "f", "a", "c", "e", " ">> }

(* is_java_line or starts_with_brace or ends_with_brace *)
IsCodeStart(line) ==
    LET stripped == Strip(line)
    IN  \/ \E kw \in java_keywords : StartsWith(stripped, kw)
        \/ stripped # <<>> /\ stripped[1] = "{"
        \/ stripped # <<>> /\ stripped[Len(stripped)] = "{"

(* line.count('{') - line.count('}') *)
BraceDelta(line) == Count(line, "{") - Count(line, "}")

(* line.startswith('    ') or line.startswith('\t') *)
IsIndented(line) ==
    StartsWith(line, <<" ", " ", " ", " ">>) \/ StartsWith(line, <<"\t">>)

(* the loop going on while the balance is not zero *)
RECURSIVE BraceCollect_nonzero(_, _)
BraceCollect_nonzero(j, count) ==
    IF j < Len(lines) /\ count # 0
    THEN BraceCollect_nonzero(j + 1, count + BraceDelta(Line(j)))
    ELSE [i |-> j, brace_count |-> count]

(* the loop leaving a fence marker or a line of the heading pattern to the *)
(* main loop                                                               *)
RECURSIVE BraceCollect_classify(_, _)
BraceCollect_classify(j, count) ==
    IF /\ j < Len(lines) /\ count > 0
       /\ ~StartsWith(Strip(Line(j)), <<BT, BT, BT>>)
       /\ ~ReMatch(Strip(Line(j))).ok
    THEN BraceCollect_classify(j + 1, count + BraceDelta(Line(j)))
    ELSE [i |-> j, brace_count |-> count]

(* while i < len(lines) and brace_count > 0: the cursor and the balance    *)
(* when the loop is left                                                   *)
RECURSIVE BraceCollect(_, _)
BraceCollect(j, count) ==
    IF j < Len(lines) /\ count > 0
    THEN BraceCollect(j + 1, count + BraceDelta(Line(j)))
    ELSE [i |-> j, brace_count |-> count]

(* the loop taking the indented lines only *)
RECURSIVE IndentCollect_noblank(_)
IndentCollect_noblank(j) ==
    IF j < Len(lines) /\ IsIndented(Line(j))
    THEN IndentCollect_noblank(j + 1)
    ELSE j

(* The while loop of the indented block, with its break: the cursor when   *)
(* the loop is left                                                        *)
RECURSIVE IndentCollect(_)
IndentCollect(j) ==
    IF j < Len(lines) /\ (IsIndented(Line(j)) \/ Strip(Line(j)) = <<>>)
    THEN IF /\ j + 1 < Len(lines)
            /\ ~IsIndented(Line(j + 1))
            /\ Strip(Line(j + 1)) # <<>>
         THEN j + 1
         ELSE IndentCollect(j + 1)
    ELSE j

InLoop == pc = "fmt" /\ i < Len(lines)

(* ``` outside a fence: the fence opens *)
FenceOpen ==
    /\ InLoop
    /\ IsFenceMarker(Line(i))
    /\ ~in_code_block
    /\ in_code_block' = TRUE
    /\ code_lines' = <<>>
    /\ fence_open' = i
    /\ i' = i + 1
    /\ UNCHANGED <<html, brace_count>>
    /\ UNCHANGED <<lines, pc>>
    /\ UNCHANGED tocVars

(* the closing fence leaving the buffered lines in code_lines *)
FenceClose_keep ==
    /\ pc = "fmt" /\ i < Len(lines)
    /\ IsFenceMarker(Line(i))
    /\ in_code_block
    /\ html' = Append(html, Fragment("pre", <<>>, 0, escape(Join(code_lines)),
                                     "fence", fence_open, i))
    /\ code_lines' = code_lines
    /\ in_code_block' = FALSE
    /\ i' = i + 1
    /\ UNCHANGED <<brace_count, fence_open>>
    /\ UNCHANGED <<lines, pc>>
    /\ UNCHANGED tocVars

(* ``` inside a fence: the buffered lines become one code fragment *)
FenceClose ==
    /\ InLoop
    /\ IsFenceMarker(Line(i))
    /\ in_code_block
    /\ html' = Append(html, Fragment("pre", <<>>, 0, escape(Join(code_lines)),
                                     "fence", fence_open, i))
    /\ code_lines' = <<>>
    /\ in_code_block' = FALSE
    /\ i' = i + 1
    /\ UNCHANGED <<brace_count, fence_open>>
    /\ UNCHANGED <<lines, pc>>
    /\ UNCHANGED tocVars

(* the fence buffering the trimmed line instead of the line *)
FenceLine_stripped ==
    /\ pc = "fmt" /\ i < Len(lines)
    /\ ~IsFenceMarker(Line(i))
    /\ in_code_block
    /\ code_lines' = Append(code_lines, Strip(Line(i)))
    /\ i' = i + 1
    /\ UNCHANGED <<html, in_code_block, brace_count, fence_open>>
    /\ UNCHANGED <<lines, pc>>
    /\ UNCHANGED tocVars

(* any other line inside a fence is buffered *)
FenceLine ==
    /\ InLoop
    /\ ~IsFenceMarker(Line(i))
    /\ in_code_block
    /\ code_lines' = Append(code_lines, Line(i))
    /\ i' = i + 1
    /\ UNCHANGED <<html, in_code_block, brace_count, fence_open>>
    /\ UNCHANGED <<lines, pc>>
    /\ UNCHANGED tocVars

(* the heading made once for an id, a paragraph for the later lines *)
HeadingLine_once ==
    /\ pc = "fmt" /\ i < Len(lines)
    /\ ~IsFenceMarker(Line(i))
    /\ ~in_code_block
    /\ TitleMatch(Line(i)).ok
    /\ \E line \in {Line(i)} :
       \E title_match \in {TitleMatch(line)} :
       \E number \in {title_match.number} :
       \E title \in {title_match.title} :
       \E level \in {Level(number)} :
           IF /\ TitleOk(title)
              /\ ~ \E f \in 1..Len(html) :
                     html[f].tag = "h" /\ html[f].id = HeadingId(number)
           THEN html' = Append(html, Fragment("h", HeadingId(number), level,
                                    escape(Strip(line)), "heading", i, i))
           ELSE html' = Append(html, Fragment("p", <<>>, 0, escape(line),
                                    "heading", i, i))
    /\ i' = i + 1
    /\ UNCHANGED <<in_code_block, code_lines, brace_count, fence_open>>
    /\ UNCHANGED <<lines, pc>>
    /\ UNCHANGED tocVars

(* a line of the heading pattern: heading, or paragraph when the title is  *)
(* refused                                                                 *)
HeadingLine ==
    /\ InLoop
    /\ ~IsFenceMarker(Line(i))
    /\ ~in_code_block
    /\ TitleMatch(Line(i)).ok
    /\ \E line \in {Line(i)} :
       \E title_match \in {TitleMatch(line)} :
       \E number \in {title_match.number} :
       \E title \in {title_match.title} :
       \E level \in {Level(number)} :
           IF TitleOk(title)
           THEN html' = Append(html, Fragment("h", HeadingId(number), level,
                                    escape(Strip(line)), "heading", i, i))
           ELSE html' = Append(html, Fragment("p", <<>>, 0, escape(line),
                                    "heading", i, i))
    /\ i' = i + 1
    /\ UNCHANGED <<in_code_block, code_lines, brace_count, fence_open>>
    /\ UNCHANGED <<lines, pc>>
    /\ UNCHANGED tocVars

(* the code fragment only for several lines of balance zero *)
BraceBlock_and ==
    /\ pc = "fmt" /\ i < Len(lines)
    /\ ~IsFenceMarker(Line(i))
    /\ ~in_code_block
    /\ ~TitleMatch(Line(i)).ok
    /\ IsCodeStart(Line(i))
    /\ \E line \in {Line(i)} :
       \E count \in {BraceDelta(line)} :
       \E pull \in {/\ count = 0
                    /\ i + 1 < Len(lines)
                    /\ Strip(Line(i + 1)) # <<>>
                    /\ Strip(Line(i + 1))[1] = "{"} :
       \E end \in {IF pull
                   THEN BraceCollect(i + 2, BraceDelta(Line(i + 1)))
                   ELSE BraceCollect(i + 1, count)} :
       \E code_block \in {Slice(i, end.i)} :
           /\ IF Len(code_block) > 1 /\ end.brace_count = 0
              THEN html' = Append(html, Fragment("pre", <<>>, 0,
                                  escape(Join(code_block)), "brace", i, end.i - 1))
              ELSE html' = Append(html, Fragment("p", <<>>, 0, escape(line),
                                  "brace", i, end.i - 1))
           /\ i' = end.i
           /\ brace_count' = end.brace_count
    /\ UNCHANGED <<in_code_block, code_lines, fence_open>>
    /\ UNCHANGED <<lines, pc>>
    /\ UNCHANGED tocVars

(* a line that looks like the start of code: collect until the braces      *)
(* balance                                                                 *)
BraceBlock ==
    /\ InLoop
    /\ ~IsFenceMarker(Line(i))
    /\ ~in_code_block
    /\ ~TitleMatch(Line(i)).ok
    /\ IsCodeStart(Line(i))
    /\ \E line \in {Line(i)} :
       \E count \in {BraceDelta(line)} :
       \E pull \in {/\ count = 0
                    /\ i + 1 < Len(lines)
                    /\ Strip(Line(i + 1)) # <<>>
                    /\ Strip(Line(i + 1))[1] = "{"} :
       \E end \in {IF pull
                   THEN BraceCollect(i + 2, BraceDelta(Line(i + 1)))
                   ELSE BraceCollect(i + 1, count)} :
       \E code_block \in {Slice(i, end.i)} :
           /\ IF Len(code_block) > 1 \/ end.brace_count = 0
              THEN html' = Append(html, Fragment("pre", <<>>, 0,
                                  escape(Join(code_block)), "brace", i, end.i - 1))
              ELSE html' = Append(html, Fragment("p", <<>>, 0, escape(line),
                                  "brace", i, end.i - 1))
           /\ i' = end.i
           /\ brace_count' = end.brace_count
    /\ UNCHANGED <<in_code_block, code_lines, fence_open>>
    /\ UNCHANGED <<lines, pc>>
    /\ UNCHANGED tocVars

(* the indentation test made before the test for the start of code *)
IndentBlock_first ==
    /\ pc = "fmt" /\ i < Len(lines)
    /\ ~IsFenceMarker(Line(i))
    /\ ~in_code_block
    /\ ~TitleMatch(Line(i)).ok
    /\ IsIndented(Line(i))
    /\ \E end \in {IndentCollect(i + 1)} :
       \E code_block \in {Slice(i, end)} :
           /\ html' = Append(html, Fragment("pre", <<>>, 0,
                             escape(RStrip(Join(code_block))), "indent", i, end - 1))
           /\ i' = end
    /\ UNCHANGED <<in_code_block, code_lines, brace_count, fence_open>>
    /\ UNCHANGED <<lines, pc>>
    /\ UNCHANGED tocVars

(* a line indented by four spaces or a tab: collect the indented and the   *)
(* blank lines that follow                                                 *)
IndentBlock ==
    /\ InLoop
    /\ ~IsFenceMarker(Line(i))
    /\ ~in_code_block
    /\ ~TitleMatch(Line(i)).ok
    /\ ~IsCodeStart(Line(i))
    /\ IsIndented(Line(i))
    /\ \E end \in {IndentCollect(i + 1)} :
       \E code_block \in {Slice(i, end)} :
           /\ html' = Append(html, Fragment("pre", <<>>, 0,
                             escape(RStrip(Join(code_block))), "indent", i, end - 1))
           /\ i' = end
    /\ UNCHANGED <<in_code_block, code_lines, brace_count, fence_open>>
    /\ UNCHANGED <<lines, pc>>
    /\ UNCHANGED tocVars

(* the empty line without its i += 1 *)
BlankLine_stuck ==
    /\ pc = "fmt" /\ i < Len(lines)
    /\ ~IsFenceMarker(Line(i))
    /\ ~in_code_block
    /\ ~TitleMatch(Line(i)).ok
    /\ ~IsCodeStart(Line(i))
    /\ ~IsIndented(Line(i))
    /\ Strip(Line(i)) = <<>>
    /\ html' = Append(html, Fragment("gap", <<>>, 0, <<>>, "blank", i, i))
    /\ i' = i
    /\ UNCHANGED <<in_code_block, code_lines, brace_count, fence_open>>
    /\ UNCHANGED <<lines, pc>>
    /\ UNCHANGED tocVars

(* an empty line *)
BlankLine ==
    /\ InLoop
    /\ ~IsFenceMarker(Line(i))
    /\ ~in_code_block
    /\ ~TitleMatch(Line(i)).ok
    /\ ~IsCodeStart(Line(i))
    /\ ~IsIndented(Line(i))
    /\ Strip(Line(i)) = <<>>
    /\ html' = Append(html, Fragment("gap", <<>>, 0, <<>>, "blank", i, i))
    /\ i' = i + 1
    /\ UNCHANGED <<in_code_block, code_lines, brace_count, fence_open>>
    /\ UNCHANGED <<lines, pc>>
    /\ UNCHANGED tocVars

(* any other line *)
Paragraph ==
    /\ InLoop
    /\ ~IsFenceMarker(Line(i))
    /\ ~in_code_block
    /\ ~TitleMatch(Line(i)).ok
    /\ ~IsCodeStart(Line(i))
    /\ ~IsIndented(Line(i))
    /\ Strip(Line(i)) # <<>>
    /\ html' = Append(html, Fragment("p", <<>>, 0, escape(Line(i)), "para", i, i))
    /\ i' = i + 1
    /\ UNCHANGED <<in_code_block, code_lines, brace_count, fence_open>>
    /\ UNCHANGED <<lines, pc>>
    /\ UNCHANGED tocVars

(* return '\n'.join(html): the fragments, one per line of output *)
FormatReturn ==
    /\ pc = "fmt"
    /\ i >= Len(lines)
    /\ pc' = "done"
    /\ UNCHANGED <<lines>>
    /\ UNCHANGED tocVars
    /\ UNCHANGED fmtVars

----------------------------------------------------------------------------
Next ==
    \/ TocStep
    \/ TocReturn
    \/ FenceOpen
    \/ FenceClose
    \/ FenceLine
    \/ HeadingLine
    \/ BraceBlock
    \/ IndentBlock
    \/ BlankLine
    \/ Paragraph
    \/ FormatReturn

Spec == Init /\ [][Next]_vars

(* The program runs to its end: it is sequential, and no step of it is    *)
(* postponed for ever.                                                     *)
InitLive == Init /\ lines \in LiveDocuments

FairSpec == InitLive /\ [][Next]_vars /\ WF_vars(Next)

TypeOK ==
    /\ pc \in {"toc", "fmt", "done"}
    /\ k \in 0..Len(lines)
    /\ i \in 0..Len(lines)
    /\ Len(toc) = Len(toc_line)
    /\ in_code_block \in BOOLEAN

----------------------------------------------------------------------------
(* Properties.                                                             *)

Done == pc = "done"

(* The spans of the fragments, in the order of html, are 0 .. len(lines)-1 *)
(* cut into consecutive non-empty intervals.                               *)
SpansPartition ==
    /\ html # <<>>
    /\ html[1].first = 0
    /\ html[Len(html)].last = Len(lines) - 1
    /\ \A e \in 1..Len(html) : html[e].first <= html[e].last
    /\ \A e \in 1..(Len(html) - 1) : html[e + 1].first = html[e].last + 1

(* C1: when format_content_to_html has finished, every input line lies in  *)
(* the span of exactly one fragment (the fence markers in the span of      *)
(* their fence), the spans are in input order, no line is dropped or       *)
(* duplicated.                                                             *)
C1_Coverage == Done => SpansPartition

(* C2: every entry of the outline has, in the finished body, a heading     *)
(* fragment made from the line that produced the entry, carrying the       *)
(* entry's id.                                                             *)
C2_IdCoupling ==
    Done =>
        \A e \in 1..Len(toc) :
            \E f \in 1..Len(html) :
                /\ html[f].tag = "h"
                /\ html[f].first = toc_line[e]
                /\ html[f].last = toc_line[e]
                /\ html[f].id = toc[e].id

(* What the line at index j is for the outline: cand when it has the       *)
(* heading pattern and passes every filter but the one on repeated         *)
(* numbers, with its number and its title.                                 *)
Scanned(j) ==
    LET t == Strip(Line(j))
        m == ReMatch(t)
        title == Strip(m.title)
    IN  [cand   |-> /\ m.ok
                    /\ Len(title) >= 4
                    /\ ~ \E kw \in skip_keywords : Contains(title, kw)
                    /\ ~ StartsWith(title, <<"h", "t", "t", "p">>)
                    /\ ~ (Len(t) >= 2 /\ IsDigit(t[1]) /\ t[2] = ")"),
         ok     |-> m.ok,
         number |-> m.number,
         title  |-> title]

Candidate(j) == Scanned(j).cand
NumberOf(j)  == Scanned(j).number
TitleOf(j)   == Scanned(j).title

(* C3: after any prefix of the lines, no two entries of the outline have   *)
(* the same number; the entry of a number comes from the first line of the *)
(* prefix that carries the number and passes the other filters, and a      *)
(* later line with that number has neither added an entry nor changed it.  *)
C3_DuplicateSuppression ==
    /\ \A a, b \in 1..Len(toc) : a # b => toc[a].number # toc[b].number
    /\ \A e \in 1..Len(toc) :
          /\ toc_line[e] < k
          /\ LET sc == Scanned(toc_line[e])
             IN  sc.cand /\ toc[e].number = sc.number /\ toc[e].title = sc.title
          /\ \A j \in 0..(toc_line[e] - 1) :
                LET sc == Scanned(j)
                IN  ~ (sc.cand /\ sc.number = toc[e].number)
    /\ \A j \in 0..(k - 1) :
          LET sc == Scanned(j)
          IN  sc.cand => \E e \in 1..Len(toc) : toc[e].number = sc.number

(* A second line with an accepted number and another title has been read.  *)
C3_Witness ==
    \E e \in 1..Len(toc) :
        \E j \in (toc_line[e] + 1)..(k - 1) :
            /\ Candidate(j)
            /\ NumberOf(j) = toc[e].number
            /\ TitleOf(j) # toc[e].title

(* C4: format_content_to_html reaches its end for every document; the     *)
(* cursor never decreases, and every iteration of the main loop increases  *)
(* it.                                                                     *)
C4_Termination ==
    /\ [][/\ i' >= i
          /\ (pc = "fmt" /\ pc' = "fmt") => i' > i]_vars
    /\ <>Done

(* The function has returned after an iteration that consumed more than    *)
(* one line and iterations that consumed one.                              *)
C4_Witness ==
    /\ Done
    /\ i = Len(lines)
    /\ \E f \in 1..Len(html) : html[f].last > html[f].first
    /\ \E f \in 1..Len(html) : html[f].last = html[f].first

(* The inverse of html.escape *)
RECURSIVE Unescape(_)
Unescape(t) ==
    IF t = <<>> THEN <<>>
    ELSE IF StartsWith(t, <<"&", "a", "m", "p", ";">>)
         THEN <<"&">> \o Unescape(SubSeq(t, 6, Len(t)))
    ELSE IF StartsWith(t, <<"&", "l", "t", ";">>)
         THEN <<"<">> \o Unescape(SubSeq(t, 5, Len(t)))
    ELSE IF StartsWith(t, <<"&", "g", "t", ";">>)
         THEN <<">">> \o Unescape(SubSeq(t, 5, Len(t)))
    ELSE IF StartsWith(t, <<"&", "q", "u", "o", "t", ";">>)
         THEN <<DQ>> \o Unescape(SubSeq(t, 7, Len(t)))
    ELSE IF StartsWith(t, <<"&", "#", "x", "2", "7", ";">>)
         THEN <<SQ>> \o Unescape(SubSeq(t, 7, Len(t)))
    ELSE <<Head(t)>> \o Unescape(Tail(t))

(* The fragment at f is the only one whose span meets its own span. *)
AloneOnSpan(f) ==
    \A g \in 1..Len(html) :
        g # f => (html[g].last < html[f].first \/ html[g].first > html[f].last)

(* C5 as stated: a fence is closed only by a line that is exactly three    *)
(* backticks after trimming, and the lines between the opening and the     *)
(* closing line are the content of one code fragment.                      *)
C5_ClosedByExactFence ==
    \A f \in 1..Len(html) :
        html[f].rule = "fence" =>
            /\ Strip(Line(html[f].last)) = <<BT, BT, BT>>
            /\ Unescape(html[f].text) = Join(Slice(html[f].first + 1, html[f].last))

(* C5, amended: an open fence is closed by the first following line whose  *)
(* trimmed content starts with three backticks; the lines between the      *)
(* opening and that line are buffered verbatim and in order, and are the   *)
(* content of one single code fragment.                                    *)
C5_FenceRoundTrip ==
    /\ in_code_block =>
          /\ fence_open < i
          /\ StartsWith(Strip(Line(fence_open)), <<BT, BT, BT>>)
          /\ code_lines = Slice(fence_open + 1, i)
          /\ \A j \in (fence_open + 1)..(i - 1) :
                ~StartsWith(Strip(Line(j)), <<BT, BT, BT>>)
    /\ \A f \in 1..Len(html) :
          html[f].rule = "fence" =>
              /\ html[f].tag = "pre"
              /\ html[f].first < html[f].last
              /\ StartsWith(Strip(Line(html[f].first)), <<BT, BT, BT>>)
              /\ StartsWith(Strip(Line(html[f].last)), <<BT, BT, BT>>)
              /\ \A j \in (html[f].first + 1)..(html[f].last - 1) :
                    ~StartsWith(Strip(Line(j)), <<BT, BT, BT>>)
              /\ Unescape(html[f].text) =
                    Join(Slice(html[f].first + 1, html[f].last))
              /\ AloneOnSpan(f)

(* A closed fence holding a line with backticks that do not start it and a *)
(* line with surrounding whitespace, or closed by backticks with a suffix. *)
C5_Witness ==
    \E f \in 1..Len(html) :
        /\ html[f].rule = "fence"
        /\ \E j \in (html[f].first + 1)..(html[f].last - 1) :
              Contains(Line(j), <<BT, BT, BT>>)
        /\ Strip(Line(html[f].last)) = <<BT, BT, BT>>

(* The line at index j has the heading pattern and its title is refused:   *)
(* shorter than 4 characters, or holding a denylisted fragment.            *)
Refused(j) ==
    LET sc == Scanned(j)
    IN  /\ sc.ok
        /\ \/ Len(sc.title) < 4
           \/ \E kw \in skip_keywords : Contains(sc.title, kw)

(* The line at index j has the heading pattern and a title of exactly 4    *)
(* characters without denylisted fragment.                                 *)
FourChars(j) ==
    LET sc == Scanned(j)
    IN  /\ sc.ok
        /\ Len(sc.title) = 4
        /\ ~ \E kw \in skip_keywords : Contains(sc.title, kw)

(* One fragment was appended to html, for the line at i alone. *)
EmitsOne ==
    /\ Len(html') = Len(html) + 1
    /\ SubSeq(html', 1, Len(html)) = html
    /\ html'[Len(html')].first = i
    /\ html'[Len(html')].last = i
    /\ i' = i + 1

(* C6: a line of the heading pattern with a refused title adds nothing to  *)
(* the outline, and at the cursor outside a code block makes exactly one   *)
(* paragraph fragment holding the untrimmed line; with a title of exactly  *)
(* 4 characters and no denylisted fragment it makes a heading fragment.    *)
C6_HeadingRejection ==
    [][/\ (pc = "toc" /\ k < Len(lines) /\ Refused(k)) =>
              (toc' = toc /\ toc_ids' = toc_ids)
       /\ (pc = "fmt" /\ i < Len(lines) /\ ~in_code_block /\ Refused(i)) =>
              /\ EmitsOne
              /\ html'[Len(html')].tag = "p"
              /\ Unescape(html'[Len(html')].text) = Line(i)
       /\ (pc = "fmt" /\ i < Len(lines) /\ ~in_code_block /\ FourChars(i)) =>
              /\ EmitsOne
              /\ html'[Len(html')].tag = "h"
      ]_vars

(* The body holds a paragraph made of a refused heading line that has      *)
(* leading whitespace and a heading whose title has 4 characters; the      *)
(* outline has no entry for the refused line.                              *)
C6_Witness ==
    /\ Done
    /\ \E f \in 1..Len(html) :
          /\ html[f].tag = "p"
          /\ Refused(html[f].first)
          /\ Line(html[f].first) # Strip(Line(html[f].first))
          /\ \A e \in 1..Len(toc) : toc_line[e] # html[f].first
    /\ \E f \in 1..Len(html) : html[f].tag = "h" /\ FourChars(html[f].first)

(* C7: the outline is in the order of the lines; the level of an entry is  *)
(* the number of dot-separated components of its number, 1, 2 or 3; its id *)
(* is "h-" and the number with "-" for every "."; ids are distinct.        *)
C7_OutlineShape ==
    /\ \A e \in 1..(Len(toc) - 1) : toc_line[e] < toc_line[e + 1]
    /\ \A e \in 1..Len(toc) :
          /\ toc[e].number = NumberOf(toc_line[e])
          /\ toc[e].level = Count(toc[e].number, ".") + 1
          /\ toc[e].level \in {1, 2, 3}
          /\ Len(toc[e].id) = Len(toc[e].number) + 2
          /\ toc[e].id[1] = "h" /\ toc[e].id[2] = "-"
          /\ \A a \in 1..Len(toc[e].number) :
                toc[e].id[a + 2] =
                    IF toc[e].number[a] = "." THEN "-" ELSE toc[e].number[a]
    /\ \A a, b \in 1..Len(toc) : a # b => toc[a].id # toc[b].id

(* An outline of two entries, one of them of level 3. *)
C7_Witness ==
    /\ Len(toc) >= 2
    /\ \E e \in 1..Len(toc) : toc[e].level = 3
    /\ \E e \in 1..Len(toc) : toc[e].level = 1

(* The trimmed line at index j starts with a digit and ")". *)
EnumLine(j) ==
    /\ Len(Strip(Line(j))) >= 2
    /\ IsDigit(Strip(Line(j))[1])
    /\ Strip(Line(j))[2] = ")"

(* C8: a line whose trimmed content starts with a digit and ")" makes no   *)
(* entry of the outline and no heading fragment, whatever follows.         *)
C8_EnumerationExclusion ==
    /\ \A e \in 1..Len(toc) : ~EnumLine(toc_line[e])
    /\ \A f \in 1..Len(html) : html[f].tag = "h" => ~EnumLine(html[f].first)

(* Both functions have seen an enumeration line with a long title; the     *)
(* main loop had it at the cursor.                                         *)
C8_Witness ==
    /\ Done
    /\ \E f \in 1..Len(html) :
          /\ EnumLine(html[f].first)
          /\ html[f].last = html[f].first
          /\ Len(Strip(Line(html[f].first))) >= 7

(* No character that html.escape replaces is left in t, and every "&" of t *)
(* starts one of the five entities.                                        *)
WellEscaped(t) ==
    \A a \in 1..Len(t) :
        /\ t[a] \notin {"<", ">", DQ, SQ}
        /\ t[a] = "&" =>
              \E ent \in {EscapeChar(c) : c \in {"&", "<", ">", DQ, SQ}} :
                  SubSeq(t, a, a + Len(ent) - 1) = ent

(* The source text of a fragment: what its lines put into it. *)
SourceText(f) ==
    CASE f.rule = "fence"  -> Join(Slice(f.first + 1, f.last))
      [] f.rule = "brace" /\ f.tag = "pre" -> Join(Slice(f.first, f.last + 1))
      [] f.rule = "indent" -> RStrip(Join(Slice(f.first, f.last + 1)))
      [] f.rule = "heading" /\ f.tag = "h" -> Strip(Line(f.first))
      [] f.rule = "blank"  -> <<>>
      [] OTHER             -> Line(f.first)

(* C9: the text of every fragment is its source text escaped once: it has  *)
(* no unescaped character, and unescaping it once gives the source text;   *)
(* for a code block the source text is the buffer joined with newlines.    *)
C9_EscapedOnce ==
    \A f \in 1..Len(html) :
        /\ WellEscaped(html[f].text)
        /\ Unescape(html[f].text) = SourceText(html[f])

(* A code fragment of several lines with "&" in it, a paragraph with a     *)
(* double quote and a heading with "<".                                    *)
C9_Witness ==
    /\ \E f \in 1..Len(html) :
          /\ html[f].tag = "pre"
          /\ html[f].last > html[f].first
          /\ Contains(SourceText(html[f]), <<"&">>)
          /\ Contains(SourceText(html[f]), <<NL>>)
    /\ \E f \in 1..Len(html) :
          \/ html[f].tag = "p" /\ Contains(Line(html[f].first), <<DQ>>)
          \/ html[f].tag = "h" /\ Contains(Line(html[f].first), <<"<">>)

(* The rule of the main loop that comes first for the line at index j      *)
(* outside a fence.                                                        *)
FirstRule(j) ==
    IF ReMatch(Strip(Line(j))).ok THEN "heading"
    ELSE IF IsCodeStart(Line(j)) THEN "brace"
    ELSE IF IsIndented(Line(j)) THEN "indent"
    ELSE IF Strip(Line(j)) = <<>> THEN "blank"
    ELSE "para"

(* C10: the line at the cursor is handled by the first rule that matches,  *)
(* in the order fence, heading pattern, code heuristic, indentation, blank *)
(* line, paragraph; a line of the heading pattern makes a heading or a     *)
(* paragraph of that line alone, also when it is indented or ends with     *)
(* "{"; an indented line that starts with a code keyword is handled by the *)
(* code heuristic.                                                         *)
C10_Precedence ==
    [][(pc = "fmt" /\ i < Len(lines)) =>
          IF StartsWith(Strip(Line(i)), <<BT, BT, BT>>) \/ in_code_block
          THEN \/ html' = html /\ i' = i + 1
               \/ /\ Len(html') = Len(html) + 1
                  /\ html'[Len(html')].rule = "fence"
                  /\ i' = i + 1
          ELSE /\ Len(html') = Len(html) + 1
               /\ html'[Len(html')].first = i
               /\ html'[Len(html')].rule = FirstRule(i)
               /\ in_code_block' = in_code_block
               /\ FirstRule(i) = "heading" =>
                     /\ html'[Len(html')].tag \in {"h", "p"}
                     /\ html'[Len(html')].last = i
                     /\ i' = i + 1
      ]_vars

(* The body holds a heading made of an indented line that ends with "{"    *)
(* and a fragment of the code heuristic that starts at an indented line.   *)
C10_Witness ==
    /\ \E f \in 1..Len(html) :
          /\ html[f].rule = "heading"
          /\ IsIndented(Line(html[f].first))
          /\ Line(html[f].first)[Len(Line(html[f].first))] = "{"
    /\ \E f \in 1..Len(html) :
          /\ html[f].rule = "brace"
          /\ IsIndented(Line(html[f].first))

(* The braces of lines[a:b]: the opening ones minus the closing ones.      *)
RECURSIVE Balance(_, _)
Balance(a, b) ==
    IF b <= a THEN 0 ELSE Balance(a, b - 1) + BraceDelta(Line(b - 1))

(* The cursor of the main loop is at a line the code heuristic takes.      *)
AtBraceRule ==
    /\ pc = "fmt" /\ i < Len(lines)
    /\ ~in_code_block
    /\ ~IsFenceMarker(Line(i))
    /\ FirstRule(i) = "brace"

C12_BraceEmission ==
    [][AtBraceRule =>
          /\ Len(html') = Len(html) + 1
          /\ SubSeq(html', 1, Len(html)) = html
          /\ html'[Len(html')].first = i
          /\ html'[Len(html')].last = i' - 1
          /\ IF i' - i > 1 \/ Balance(i, i') = 0
             THEN /\ html'[Len(html')].tag = "pre"
                  /\ html'[Len(html')].text = escape(Join(Slice(i, i')))
             ELSE /\ i' = i + 1
                  /\ Balance(i, i') # 0
                  /\ html'[Len(html')].tag = "p"
                  /\ html'[Len(html')].text = escape(Line(i))
      ]_vars

(* The body holds a code fragment made of a single line of balance zero    *)
(* and a paragraph made of a single line of the code heuristic whose       *)
(* braces are not balanced.                                                *)
C12_Witness ==
    /\ \E f \in 1..Len(html) :
          /\ html[f].rule = "brace"
          /\ html[f].tag = "pre"
          /\ html[f].first = html[f].last
          /\ BraceDelta(Line(html[f].first)) = 0
    /\ \E f \in 1..Len(html) :
          /\ html[f].rule = "brace"
          /\ html[f].tag = "p"
          /\ html[f].first = html[f].last
          /\ BraceDelta(Line(html[f].first)) # 0

(* The cursor of the main loop is at a line the indentation rule takes.    *)
AtIndentRule ==
    /\ pc = "fmt" /\ i < Len(lines)
    /\ ~in_code_block
    /\ ~IsFenceMarker(Line(i))
    /\ FirstRule(i) = "indent"

(* The line at index j is one the loop of the indented block takes.        *)
IndentedOrBlank(j) == IsIndented(Line(j)) \/ Strip(Line(j)) = <<>>

(* C13: the indentation rule appends one code fragment, and nothing else,  *)
(* for the line at the cursor and the longest run of indented or blank     *)
(* lines that follows it; the cursor is then at the end of the input or at *)
(* a line that is neither indented nor blank, outside a fence, and the     *)
(* fragment appended after the block starts at that line.                  *)
C13_IndentExtent ==
    [][/\ AtIndentRule =>
             /\ Len(html') = Len(html) + 1
             /\ SubSeq(html', 1, Len(html)) = html
             /\ html'[Len(html')].tag = "pre"
             /\ html'[Len(html')].first = i
             /\ html'[Len(html')].last = i' - 1
             /\ html'[Len(html')].text = escape(RStrip(Join(Slice(i, i'))))
             /\ i' > i
             /\ \A j \in (i + 1)..(i' - 1) : IndentedOrBlank(j)
             /\ i' < Len(lines) => ~IndentedOrBlank(i')
             /\ ~in_code_block'
       /\ (/\ Len(html) > 0
           /\ html[Len(html)].rule = "indent"
           /\ Len(html') > Len(html)) =>
             /\ html'[Len(html')].first = html[Len(html)].last + 1
             /\ ~IndentedOrBlank(html'[Len(html')].first)
      ]_vars

(* An indented block took a blank line and was followed by a fragment: no  *)
(* fragment of the body is a gap.                                          *)
C13_Witness ==
    /\ \E f \in 1..(Len(html) - 1) :
          /\ html[f].rule = "indent"
          /\ Strip(Line(html[f].first)) # <<>>
          /\ \E j \in (html[f].first + 1)..html[f].last : Line(j) = <<>>
          /\ html[f + 1].first = html[f].last + 1
    /\ \A f \in 1..Len(html) : html[f].tag # "gap"

(* C14 as stated: a line that is empty after trimming, at the cursor of    *)
(* the main loop outside a fence, makes exactly one gap fragment and moves *)
(* the cursor by one line.                                                 *)
C14_BlankGap ==
    [][(pc = "fmt" /\ i < Len(lines) /\ ~in_code_block
          /\ Strip(Line(i)) = <<>>) =>
             /\ EmitsOne
             /\ html'[Len(html')].tag = "gap"
      ]_vars

(* The line at index j has the heading pattern and a title that passes the *)
(* length and the denylist checks.                                         *)
PassesBodyFilter(j) ==
    LET sc == Scanned(j)
    IN  /\ sc.ok
        /\ Len(sc.title) >= 4
        /\ ~ \E kw \in skip_keywords : Contains(sc.title, kw)

(* The outline has an entry, made from an earlier line, for the number of  *)
(* the line at index j.                                                    *)
AcceptedBefore(j) ==
    \E e \in 1..Len(toc) :
        toc[e].number = NumberOf(j) /\ toc_line[e] < j

C16_BlocksAsUnit ==
    [][/\ (AtBraceRule \/ AtIndentRule) =>
             /\ in_code_block' = in_code_block
             /\ code_lines' = code_lines
             /\ Len(html') = Len(html) + 1
             /\ SubSeq(html', 1, Len(html)) = html
             /\ html'[Len(html')].tag # "h"
             /\ html'[Len(html')].first = i
             /\ html'[Len(html')].last = i' - 1
             /\ \A j \in (i + 1)..(Len(lines) - 1) :
                   (\/ /\ AtIndentRule
                       /\ \A m \in (i + 1)..j : IndentedOrBlank(m)
                    \/ /\ AtBraceRule
                       /\ \A m \in (i + 1)..j : Balance(i, m) > 0) => j < i'
       /\ (pc = "fmt" /\ i < Len(lines) /\ in_code_block
              /\ ~IsFenceMarker(Line(i))) =>
             /\ html' = html
             /\ code_lines' = Append(code_lines, Line(i))
             /\ in_code_block'
             /\ i' = i + 1
      ]_vars

(* The body is finished outside a fence and without a heading, and a       *)
(* fragment of the code heuristic or of the indentation rule holds, after  *)
(* its first line, a fence marker and a line that would be a heading.      *)
C16_Witness ==
    /\ Done
    /\ ~in_code_block
    /\ \A f \in 1..Len(html) : html[f].tag # "h"
    /\ \E f \in 1..Len(html) :
          /\ html[f].rule \in {"brace", "indent"}
          /\ \E j, m \in (html[f].first + 1)..html[f].last :
                IsFenceMarker(Line(j)) /\ PassesBodyFilter(m)

(* C17 as stated: when both functions have finished, the id of every       *)
(* heading fragment of the body is the id of an entry of the outline.      *)
C17_HeadingHasEntry ==
    Done =>
        \A f \in 1..Len(html) :
            html[f].tag = "h" =>
                \E e \in 1..Len(toc) : toc[e].id = html[f].id

(* The fence that is open, if any, has a fence marker after its opening    *)
(* line: with the fences closed before, every opening line the main loop   *)
(* has reached is followed by a closing line.                              *)
FencesClosed ==
    in_code_block =>
        \E j \in (fence_open + 1)..(Len(lines) - 1) : IsFenceMarker(Line(j))

(* The spans of the fragments are 0 .. n-1 cut into consecutive non-empty  *)
(* intervals, in the order of html.                                        *)
SpansCover(n) ==
    /\ \A e \in 1..Len(html) : html[e].first <= html[e].last
    /\ \A e \in 1..(Len(html) - 1) : html[e + 1].first = html[e].last + 1
    /\ IF html = <<>> THEN n = 0
       ELSE html[1].first = 0 /\ html[Len(html)].last = n - 1

(* C18: a fence that is open has no fence marker between its opening line  *)
(* and the cursor, so a later closing line is reached; outside a fence the *)
(* buffer is empty and the fragments cover the lines before the cursor,    *)
(* each line once and in order.  When every opening line that was reached  *)
(* has a later closing line, format_content_to_html ends outside a fence,  *)
(* with an empty buffer and every line of the input in the span of exactly *)
(* one fragment.                                                           *)
C18_BalancedCoverage ==
    /\ in_code_block =>
          /\ fence_open < i
          /\ IsFenceMarker(Line(fence_open))
          /\ \A j \in (fence_open + 1)..(i - 1) : ~IsFenceMarker(Line(j))
          /\ code_lines = Slice(fence_open + 1, i)
          /\ SpansCover(fence_open)
    /\ ~in_code_block => (code_lines = <<>> /\ SpansCover(i))
    /\ (Done /\ FencesClosed) =>
          /\ ~in_code_block
          /\ code_lines = <<>>
          /\ SpansPartition

(* The body is finished; a fence was opened, took a line and was closed,   *)
(* and the fragments cover the input.                                      *)
C18_Witness ==
    /\ Done
    /\ FencesClosed
    /\ SpansPartition
    /\ \E f \in 1..Len(html) :
          /\ html[f].rule = "fence"
          /\ html[f].last > html[f].first + 1

====
